---- MODULE Spec2Model ----
(***************************************************************************)
(* Model of src/scripts/find-successful-workflow.js: the base-commit       *)
(* resolver of the nx orb.  One process run is modelled from the build-URL *)
(* match at module load to process exit.  The CI API and the local git     *)
(* repository are the environment: every API response and every git       *)
(* outcome is drawn nondeterministically from a bounded set.               *)
(*                                                                         *)
(* JavaScript strings are sequences of tokens, so that the trailing        *)
(* newline execSync returns and the template literal of line 58 are kept.  *)
(* An unhandled rejection of the async IIFE terminates the process with    *)
(* exit code 1 (the default of Node.js 15 and later).                      *)
(***************************************************************************)
EXTENDS Integers, Sequences, FiniteSets, TLC

\* ---------------------------------------------------------------- bounds
MaxPages == 2
MaxItems == 2
MaxRuns == 2

\* ------------------------------------------------------------ environment
\* Commit hashes CI may have recorded; LocalObjects are those still present
\* in the local repository (the third one was orphaned by a history rewrite).
Revisions == {"a1", "b2", "e5"}
LocalObjects == {"a1", "b2"}

\* Results of the git queries when they succeed.
PreviousTag == "v0"
TagCommit == "t0"
MergeBaseCommit == "m0"
HeadParentCommit == "p0"

BranchNames == {"main", "dev", "feature"}
mainBranchName == "main"
devBranchName == "dev"

WorkflowNames == {"build", "test"}
Statuses == {"success", "on_hold", "failed"}
WorkflowItems == [name : WorkflowNames, status : Statuses]

\* All sequences over S of length at most n.
SeqUpTo(S, n) == UNION {[1..k -> S] : k \in 0..n}

WorkflowLists == SeqUpTo(WorkflowItems, MaxRuns)

\* A pipeline as the API returns it, without its id.
\* With errors, one present and one absent commit are enough.
PipelineKinds ==
    [errors : {<<>>}, revision : Revisions]
        \cup [errors : {<<"config error">>}, revision : {"a1", "e5"}]
PipelineLists == SeqUpTo(PipelineKinds, MaxItems)

\* JavaScript values.
Undefined == <<"#undefined">>
NoToken == 0
NoPipeline == [id |-> 0, errors |-> <<>>, vcs_revision |-> ""]
Falsy(v) == v = Undefined \/ v = <<>>
\* `${v}` in a template literal.
Template(v) == IF v = Undefined THEN <<"undefined">> ELSE v

\* execSync(cmd, {encoding: 'utf-8'}) of a git command that prints one line.
ExecOutput(line) == <<line, "\n">>

VARIABLES
    \* inputs: argv and environment (lines 5-13)
    buildUrlOk, circleTag, circleToken, branchName,
    errorOnNoSuccessfulWorkflow, allowOnHoldWorkflow, workflowName,
    \* control
    pc, route,
    \* main IIFE
    BASE_SHA,
    \* findSuccessfulCommit
    nextPage, foundSHA, next_page_token, sha,
    \* findSuccessfulPipeline
    pipelines, idx, pipeline,
    \* isWorkflowSuccessful: the value it returned and, where the function is
    \* run on its own, the items it is applied to (a run does not keep them)
    wfItems, wfResult,
    \* process
    stdout, stderr, exitCode,
    \* network: the outstanding requests, the number of pages requested and
    \* the number of requests that failed
    inflight, pageRequests, failures,
    \* history of the scan: the number of pipelines delivered on pages and not
    \* examined, and the id of the first examined pipeline that was eligible
    unexamined, firstEligible

inputs == <<buildUrlOk, circleTag, circleToken, branchName,
            errorOnNoSuccessfulWorkflow, allowOnHoldWorkflow, workflowName>>
search == <<nextPage, foundSHA, next_page_token, sha, pipelines, idx, pipeline,
            wfItems, wfResult>>
proc == <<stdout, stderr, exitCode>>
net == <<inflight, pageRequests, failures>>
hist == <<unexamined, firstEligible>>
vars == <<inputs, pc, route, BASE_SHA, search, proc, net, hist>>

NotExited == -1

Init ==
    /\ buildUrlOk \in BOOLEAN
    /\ circleTag \in BOOLEAN
    /\ circleToken \in BOOLEAN
    /\ branchName \in BranchNames
    /\ errorOnNoSuccessfulWorkflow \in BOOLEAN
    /\ allowOnHoldWorkflow \in BOOLEAN
    /\ workflowName \in {"", "build"}
    /\ pc = "start"
    /\ route = "none"
    /\ BASE_SHA = Undefined
    /\ nextPage = NoToken
    /\ foundSHA = Undefined
    /\ next_page_token = NoToken
    /\ sha = Undefined
    /\ pipelines = <<>>
    /\ idx = 0
    /\ pipeline = NoPipeline
    /\ wfItems = <<>>
    /\ wfResult = FALSE
    /\ stdout = <<>>
    /\ stderr = <<>>
    /\ exitCode = NotExited
    /\ inflight = {}
    /\ pageRequests = 0
    /\ failures = 0
    /\ unexamined = 0
    /\ firstEligible = 0

\* ------------------------------------------------------- pure functions

\* Line 22: the branch is neither the main nor the dev branch.
IsFeatureBranch(branch) == branch # mainBranchName /\ branch # devBranchName

\* Variant: the feature-branch test is missing, every branch is searched.
RouteOf_NoFeatureRoute(tag, branch) ==
    IF tag THEN "tag" ELSE "protected"

\* Variant: the branch is tested before the release tag.
RouteOf_BranchFirst(tag, branch) ==
    IF IsFeatureBranch(branch) THEN "feature"
    ELSE IF tag THEN "tag"
    ELSE "protected"

\* Lines 19-25: the route of a run, in the order the conditions are tested.
RouteOf(tag, branch) ==
    IF tag THEN "tag"
    ELSE IF IsFeatureBranch(branch) THEN "feature"
    ELSE "protected"

\* Lines 95-102: git cat-file -e succeeds iff the object is in the repository;
\* its failure is caught and turned into false.
commitExists(commitSha) == commitSha \in LocalObjects

\* Variant: the errors list is not looked at.
PassesLocalChecks_NoErrorsTest(p) == commitExists(p.vcs_revision)

\* Lines 86-87: the two local tests of the scan, made before any request.
PassesLocalChecks(p) ==
    /\ Len(p.errors) = 0
    /\ commitExists(p.vcs_revision)

\* Variant: on_hold is accepted whatever the flag says.
StatusOk_OnHoldAlways(item) == item.status \in {"success", "on_hold"}

\* Lines 107 and 110: the status test shared by both callbacks.
StatusOk(item) ==
    \/ item.status = "success"
    \/ (allowOnHoldWorkflow /\ item.status = "on_hold")

\* Array.prototype.every with the callback of line 107, from index i on.
RECURSIVE everyFrom(_, _)
everyFrom(items, i) ==
    IF i > Len(items) THEN TRUE
    ELSE IF ~StatusOk(items[i]) THEN FALSE
    ELSE everyFrom(items, i + 1)

\* Array.prototype.some with the callback of line 110, from index i on.
RECURSIVE someFrom(_, _, _)
someFrom(items, name, i) ==
    IF i > Len(items) THEN FALSE
    ELSE IF StatusOk(items[i]) /\ items[i].name = name THEN TRUE
    ELSE someFrom(items, name, i + 1)

\* Lines 104-112, applied to the items of the workflow response.
isWorkflowSuccessful(items, name) ==
    IF name = "" THEN everyFrom(items, 1) ELSE someFrom(items, name, 1)

\* Variant: the loop goes on while there is a next page, found or not.
LoopAgain_IgnoresFound(found, next) == next # NoToken

\* Variant: the loop body runs once, the next-page token is never followed.
LoopAgain_FirstPageOnly(found, next) == FALSE

\* Line 79: the condition of the do-while loop.
LoopAgain(found, next) == Falsy(found) /\ next # NoToken

\* Variant: the flag is read the wrong way round.
MissingIsFatal_Inverted == ~errorOnNoSuccessfulWorkflow

\* Line 35: whether a search without result is a hard error.
MissingIsFatal == errorOnNoSuccessfulWorkflow

\* Lines 36-42 and 45-49: the two texts written when the search found nothing.
HardErrorText == <<"Unable to find a successful workflow run", "hard error">>
WarningText == <<"WARNING: Unable to find a successful workflow run", "defaulting to use HEAD~1">>

\* Line 58.
CommitLine(baseSha) == <<"Commit: ">> \o Template(baseSha) \o <<"\n">>

\* Lines 136-138: the message of the Error a failed request rejects with.
FetchErrorMessage ==
    IF circleToken
    THEN <<"Error: Pipeline fetching failed.", "Check if you set the correct user CIRCLE_API_TOKEN.">>
    ELSE <<"Error: Pipeline fetching failed.", "If this is private repo you will need to set CIRCLE_API_TOKEN">>

\* Line 67 and lines 116-124: the request for a page of pipelines.
PageRequest(token) ==
    [kind |-> "pipeline", arg |-> token, auth |-> circleToken]

\* Lines 106/109 and lines 116-124: the request for a pipeline's workflows.
WorkflowRequest(pipelineId) ==
    [kind |-> "workflow", arg |-> pipelineId, auth |-> circleToken]

\* The id of the i-th pipeline of a page: its position in the branch's
\* pipeline history, newest first.
PipelineId(page, i) == (page - 1) * MaxItems + i

\* What a failed git query is drawn as.
GitFails == "fail"

\* The ways a fetch can fail: the request errors (line 135), the body is no
\* JSON (line 133), or the JSON carries no items (lines 85, 107, 110).
FetchFailures == {"network error", "invalid json", "no items"}

\* ----------------------------------------------------------- process exits

\* An exception nobody catches: at module level (line 15), inside an event
\* callback (line 133), or as the rejection of the async IIFE (lines 20, 21,
\* 24, 50).  Node prints the error to standard error and exits with code 1.
UncaughtExit(what) ==
    /\ stderr' = Append(stderr, <<"Uncaught", what>>)
    /\ exitCode' = 1
    /\ pc' = "exited"

\* Variant: the catch reports the error and does not exit; line 33 is next.
CatchExit_NoExit(message) ==
    /\ stderr' = Append(stderr, message)
    /\ exitCode' = exitCode
    /\ pc' = "searched"

\* Lines 28-31: the catch around the pipeline search.
CatchExit(message) ==
    /\ stderr' = Append(stderr, message)
    /\ exitCode' = 1
    /\ pc' = "exited"

\* ------------------------------------------------------------------ main

\* Line 15: the build URL does not match the pattern, destructuring null throws.
BuildUrlMismatch ==
    /\ pc = "start"
    /\ ~buildUrlOk
    /\ UncaughtExit("TypeError: not iterable")
    /\ UNCHANGED <<inputs, route, BASE_SHA, search, stdout, net, hist>>

\* Lines 19-21: the tag route.  Both git queries run synchronously.
TagRoute ==
    /\ pc = "start"
    /\ buildUrlOk
    /\ RouteOf(circleTag, branchName) = "tag"
    /\ route' = "tag"
    /\ \E lastTag \in {GitFails, PreviousTag}, rev \in {GitFails, TagCommit} :
          IF lastTag = GitFails \/ rev = GitFails
          THEN /\ UncaughtExit("execSync failed")
               /\ UNCHANGED BASE_SHA
          ELSE /\ BASE_SHA' = ExecOutput(rev)
               /\ pc' = "write"
               /\ UNCHANGED <<stderr, exitCode>>
    /\ UNCHANGED <<inputs, search, stdout, net, hist>>

\* Lines 22-24: the feature-branch route.
FeatureBranchRoute ==
    /\ pc = "start"
    /\ buildUrlOk
    /\ RouteOf(circleTag, branchName) = "feature"
    /\ route' = "feature"
    /\ \E mergeBase \in {GitFails, MergeBaseCommit} :
          IF mergeBase = GitFails
          THEN /\ UncaughtExit("execSync failed")
               /\ UNCHANGED BASE_SHA
          ELSE /\ BASE_SHA' = ExecOutput(mergeBase)
               /\ pc' = "write"
               /\ UNCHANGED <<stderr, exitCode>>
    /\ UNCHANGED <<inputs, search, stdout, net, hist>>

\* Lines 25-27 and 62-64: the protected-branch route enters the search.
ProtectedBranchRoute ==
    /\ pc = "start"
    /\ buildUrlOk
    /\ RouteOf(circleTag, branchName) = "protected"
    /\ route' = "protected"
    /\ nextPage' = NoToken
    /\ foundSHA' = Undefined
    /\ pc' = "fetchPage"
    /\ UNCHANGED <<inputs, BASE_SHA, next_page_token, sha, pipelines, idx,
                   pipeline, wfItems, wfResult, proc, net, hist>>

\* ------------------------------------------------- findSuccessfulCommit

\* Lines 67-68: request the first page, or the page the token names.
GetPage ==
    /\ pc = "fetchPage"
    /\ inflight' = inflight \cup {PageRequest(nextPage)}
    /\ pageRequests' = pageRequests + 1
    /\ pc' = "awaitPage"
    /\ UNCHANGED <<inputs, route, BASE_SHA, search, proc, failures, hist>>

\* Lines 68-70: the page arrives; findSuccessfulPipeline starts on its items.
\* The API ends the chain of pages after MaxPages pages.
PageResponse ==
    /\ pc = "awaitPage"
    /\ \E kinds \in PipelineLists, more \in BOOLEAN :
          /\ more => pageRequests < MaxPages
          /\ pipelines' = [i \in 1..Len(kinds) |->
                             [id |-> PipelineId(pageRequests, i),
                              errors |-> kinds[i].errors,
                              vcs_revision |-> kinds[i].revision]]
          /\ next_page_token' = IF more THEN pageRequests + 1 ELSE NoToken
          /\ unexamined' = unexamined + Len(kinds)
    /\ idx' = 1
    /\ inflight' = inflight \ {PageRequest(nextPage)}
    /\ pc' = "scan"
    /\ UNCHANGED <<inputs, route, BASE_SHA, nextPage, foundSHA, sha, pipeline,
                   wfItems, wfResult, proc, pageRequests, failures, firstEligible>>

\* The outcome of a request that fails, lines 133, 135-139 and 28-31.
FetchFails(request) ==
    /\ inflight' = inflight \ {request}
    /\ failures' = failures + 1
    /\ \E failure \in FetchFailures :
          CASE failure = "network error" -> CatchExit(FetchErrorMessage)
            [] failure = "no items" -> CatchExit(<<"TypeError">>)
            [] failure = "invalid json" -> UncaughtExit("SyntaxError")
    /\ UNCHANGED <<inputs, route, BASE_SHA, search, stdout, pageRequests, hist>>

\* The request for a page fails.
PageFailure ==
    /\ pc = "awaitPage"
    /\ FetchFails(PageRequest(nextPage))

\* ----------------------------------------------- findSuccessfulPipeline

\* The properties' reference: the statuses that count as accepted, whether a
\* list of workflow runs is accepted, and whether a pipeline with these runs
\* is eligible.  firstEligible records the verdict for the properties; the
\* program never reads it.
AcceptedStatuses ==
    IF allowOnHoldWorkflow THEN {"success", "on_hold"} ELSE {"success"}

Accepts(runs) ==
    IF workflowName = ""
    THEN \A i \in DOMAIN runs : runs[i].status \in AcceptedStatuses
    ELSE \E i \in DOMAIN runs :
            /\ runs[i].name = workflowName
            /\ runs[i].status \in AcceptedStatuses

Eligible(p, runs) ==
    /\ p.errors = <<>>
    /\ p.vcs_revision \in LocalObjects
    /\ Accepts(runs)

\* Variant: the workflow requests are started without being awaited, the
\* scan moves on to the next pipeline while they are outstanding.
ScanPipeline_NoAwait ==
    /\ pc = "scan"
    /\ IF idx > Len(pipelines)
       THEN /\ pipeline' = NoPipeline
            /\ sha' = Undefined
            /\ pc' = "loopTest"
            /\ UNCHANGED <<idx, net, unexamined>>
       ELSE /\ idx' = idx + 1
            /\ unexamined' = unexamined - 1
            /\ inflight' = IF PassesLocalChecks(pipelines[idx])
                           THEN inflight \cup {WorkflowRequest(pipelines[idx].id)}
                           ELSE inflight
            /\ UNCHANGED <<pc, pipeline, sha, pageRequests, failures>>
    /\ UNCHANGED <<inputs, route, BASE_SHA, nextPage, foundSHA, next_page_token,
                   pipelines, wfItems, wfResult, proc, firstEligible>>

\* Lines 85-88 up to the await: the next pipeline of the page.
ScanPipeline ==
    /\ pc = "scan"
    /\ IF idx > Len(pipelines)
       THEN \* line 92, then lines 70-74
            /\ pipeline' = NoPipeline
            /\ sha' = Undefined
            /\ pc' = "loopTest"
            /\ UNCHANGED <<idx, net, unexamined>>
       ELSE IF PassesLocalChecks(pipelines[idx])
       THEN /\ inflight' = inflight \cup {WorkflowRequest(pipelines[idx].id)}
            /\ pc' = "awaitWorkflow"
            /\ UNCHANGED <<idx, pipeline, sha, pageRequests, failures, unexamined>>
       ELSE /\ idx' = idx + 1
            /\ unexamined' = unexamined - 1
            /\ UNCHANGED <<pc, pipeline, sha, net>>
    /\ UNCHANGED <<inputs, route, BASE_SHA, nextPage, foundSHA, next_page_token,
                   pipelines, wfItems, wfResult, proc, firstEligible>>

\* Lines 88-90 and 106-110: the workflows of the pipeline arrive.
WorkflowResponse ==
    /\ pc = "awaitWorkflow"
    /\ \E items \in WorkflowLists :
          /\ wfResult' = isWorkflowSuccessful(items, workflowName)
          /\ firstEligible' =
                IF firstEligible = 0 /\ Eligible(pipelines[idx], items)
                THEN pipelines[idx].id ELSE firstEligible
    /\ unexamined' = unexamined - 1
    /\ inflight' = inflight \ {WorkflowRequest(pipelines[idx].id)}
    /\ IF wfResult'
       THEN \* line 89, then lines 70-74
            /\ pipeline' = pipelines[idx]
            /\ sha' = <<pipelines[idx].vcs_revision>>
            /\ pc' = "loopTest"
            /\ UNCHANGED idx
       ELSE /\ idx' = idx + 1
            /\ pc' = "scan"
            /\ UNCHANGED <<pipeline, sha>>
    /\ UNCHANGED <<inputs, route, BASE_SHA, nextPage, foundSHA, next_page_token,
                   pipelines, wfItems, proc, pageRequests, failures>>

\* The request for a pipeline's workflows fails.
WorkflowFailure ==
    /\ pc = "awaitWorkflow"
    /\ FetchFails(WorkflowRequest(pipelines[idx].id))

\* Lines 77-81 and 27: end of one round of the do-while loop.
LoopTest ==
    /\ pc = "loopTest"
    /\ foundSHA' = sha
    /\ nextPage' = next_page_token
    /\ IF LoopAgain(sha, next_page_token)
       THEN /\ pc' = "fetchPage"
            /\ UNCHANGED BASE_SHA
       ELSE /\ BASE_SHA' = sha
            /\ pc' = "searched"
    /\ UNCHANGED <<inputs, route, next_page_token, sha, pipelines, idx, pipeline,
                   wfItems, wfResult, proc, net, hist>>

\* ------------------------------------------------------- fallback, report

\* Variant: the hard-error branch prints its text and does not exit; line 58
\* is next.
NoSuccessfulWorkflow_NoExit ==
    /\ pc = "searched"
    /\ Falsy(BASE_SHA)
    /\ IF MissingIsFatal
       THEN /\ stdout' = Append(stdout, HardErrorText)
            /\ pc' = "write"
            /\ UNCHANGED <<BASE_SHA, stderr, exitCode>>
       ELSE /\ stdout' = Append(stdout, WarningText)
            /\ \E parent \in {GitFails, HeadParentCommit} :
                  IF parent = GitFails
                  THEN /\ UncaughtExit("execSync failed")
                       /\ UNCHANGED BASE_SHA
                  ELSE /\ BASE_SHA' = ExecOutput(parent)
                       /\ pc' = "write"
                       /\ UNCHANGED <<stderr, exitCode>>
    /\ UNCHANGED <<inputs, route, search, net, hist>>

\* Lines 34-51: the search returned nothing.
NoSuccessfulWorkflow ==
    /\ pc = "searched"
    /\ Falsy(BASE_SHA)
    /\ IF MissingIsFatal
       THEN /\ stdout' = Append(stdout, HardErrorText)
            /\ exitCode' = 1
            /\ pc' = "exited"
            /\ UNCHANGED <<BASE_SHA, stderr>>
       ELSE /\ stdout' = Append(stdout, WarningText)
            /\ \E parent \in {GitFails, HeadParentCommit} :
                  IF parent = GitFails
                  THEN /\ UncaughtExit("execSync failed")
                       /\ UNCHANGED BASE_SHA
                  ELSE /\ BASE_SHA' = ExecOutput(parent)
                       /\ pc' = "write"
                       /\ UNCHANGED <<stderr, exitCode>>
    /\ UNCHANGED <<inputs, route, search, net, hist>>

\* Lines 52-55: the search returned a commit.
FoundSuccessfulWorkflow ==
    /\ pc = "searched"
    /\ ~Falsy(BASE_SHA)
    /\ stdout' = Append(stdout, <<"Found the last successful workflow run">>)
    /\ pc' = "write"
    /\ UNCHANGED <<inputs, route, BASE_SHA, search, stderr, exitCode, net, hist>>

\* Line 58, and the normal end of the process.
WriteCommit ==
    /\ pc = "write"
    /\ stdout' = Append(stdout, CommitLine(BASE_SHA))
    /\ exitCode' = 0
    /\ pc' = "exited"
    /\ UNCHANGED <<inputs, route, BASE_SHA, search, stderr, net, hist>>

Next ==
    \/ BuildUrlMismatch
    \/ TagRoute
    \/ FeatureBranchRoute
    \/ ProtectedBranchRoute
    \/ GetPage
    \/ PageResponse
    \/ PageFailure
    \/ ScanPipeline
    \/ WorkflowResponse
    \/ WorkflowFailure
    \/ LoopTest
    \/ NoSuccessfulWorkflow
    \/ FoundSuccessfulWorkflow
    \/ WriteCommit

Spec == Init /\ [][Next]_vars


\* ---------------------------------------- isWorkflowSuccessful on its own

\* The workflow response, the name filter and the on-hold flag are drawn;
\* the rest of the state is that of a run on the main branch.
InitWorkflow ==
    /\ wfItems \in WorkflowLists
    /\ allowOnHoldWorkflow \in BOOLEAN
    /\ workflowName \in {"", "build"}
    /\ pc = "isWorkflowSuccessful"
    /\ buildUrlOk = TRUE
    /\ circleTag = FALSE
    /\ circleToken = FALSE
    /\ branchName = mainBranchName
    /\ errorOnNoSuccessfulWorkflow = FALSE
    /\ route = "protected"
    /\ BASE_SHA = Undefined
    /\ nextPage = NoToken
    /\ foundSHA = Undefined
    /\ next_page_token = NoToken
    /\ sha = Undefined
    /\ pipelines = <<>>
    /\ idx = 0
    /\ pipeline = NoPipeline
    /\ wfResult = FALSE
    /\ stdout = <<>>
    /\ stderr = <<>>
    /\ exitCode = NotExited
    /\ inflight = {}
    /\ pageRequests = 0
    /\ failures = 0
    /\ unexamined = 0
    /\ firstEligible = 0

\* Lines 104-112 after the response: the value the promise resolves to.
CallIsWorkflowSuccessful ==
    /\ pc = "isWorkflowSuccessful"
    /\ wfResult' = isWorkflowSuccessful(wfItems, workflowName)
    /\ pc' = "returned"
    /\ UNCHANGED <<inputs, route, BASE_SHA, nextPage, foundSHA, next_page_token,
                   sha, pipelines, idx, pipeline, wfItems, proc, net, hist>>

NextWorkflow == CallIsWorkflowSuccessful

SpecWorkflow == InitWorkflow /\ [][NextWorkflow]_vars

\* ------------------------------------------------------------- properties

\* The chunks of standard output that are Commit: lines.
CommitLineIndexes == {i \in DOMAIN stdout : stdout[i][1] = "Commit: "}

\* The hashes git or the CI API can name.
KnownHashes == Revisions \cup {TagCommit, MergeBaseCommit, HeadParentCommit}

\* A Commit: line with a hash in it, ended by a newline.
FullCommitLine(chunk) ==
    /\ Len(chunk) >= 3
    /\ chunk[1] = "Commit: "
    /\ chunk[2] \in KnownHashes
    /\ chunk[Len(chunk)] = "\n"

\* The protected-branch route ran its search to the end and found nothing.
SearchFoundNothing ==
    /\ route = "protected"
    /\ pc = "exited"
    /\ failures = 0
    /\ pipeline = NoPipeline

\* C1: the pipeline the search selects has an empty errors list, a commit
\* present in the local repository and accepted workflows; the commit the
\* search returns is that pipeline's revision.
C1_OnlyEligibleSelected ==
    /\ pipeline # NoPipeline =>
          /\ pipeline.errors = <<>>
          /\ pipeline.vcs_revision \in LocalObjects
          /\ firstEligible = pipeline.id
    /\ foundSHA # Undefined =>
          /\ pipeline # NoPipeline
          /\ foundSHA = <<pipeline.vcs_revision>>
    /\ pc = "searched" => BASE_SHA = foundSHA

\* C1 witness: a commit was returned for a pipeline that is not the newest,
\* so at least one pipeline was turned down before it.
C1_Witness ==
    /\ pc = "searched"
    /\ foundSHA = <<"b2">>
    /\ pipeline.id > 1

\* C2: isWorkflowSuccessful returns true exactly when, with a name filter,
\* some run has that name and an accepted status, and, without a filter, every
\* run has an accepted status (success, or on_hold under the flag).
C2_AcceptanceExact ==
    pc = "returned" => (wfResult <=> Accepts(wfItems))

\* C2 witness: with the filter, a pipeline is accepted although another of
\* its runs failed.
C2_Witness ==
    /\ pc = "returned"
    /\ wfResult
    /\ workflowName = "build"
    /\ Len(wfItems) = 2
    /\ wfItems[1].status = "failed"

\* C3: when the search returns, it returns the revision of the first eligible
\* pipeline in scan order, and it returns nothing only when every pipeline of
\* every page of the chain was examined and none was eligible.
C3_FirstEligibleOrNone ==
    pc = "searched" =>
        /\ firstEligible # 0 =>
              /\ pipeline.id = firstEligible
              /\ BASE_SHA = <<pipeline.vcs_revision>>
        /\ firstEligible = 0 =>
              /\ BASE_SHA = Undefined
              /\ unexamined = 0
              /\ next_page_token = NoToken

\* C3 witness: the first eligible pipeline is on the second page.
C3_Witness ==
    /\ pc = "searched"
    /\ firstEligible > MaxItems
    /\ BASE_SHA # Undefined

\* C4: once findSuccessfulPipeline has returned a pipeline, no pipeline is
\* examined, no workflow request and no page request is made any more.
C4_StopsAtFirstMatch ==
    [][pipeline # NoPipeline =>
          /\ idx' = idx
          /\ unexamined' = unexamined
          /\ pageRequests' = pageRequests
          /\ inflight' = {}]_vars

\* C4 witness: the run ended with a match that left pipelines of its page
\* unexamined while the page carried a next-page token.
C4_Witness ==
    /\ pc = "exited"
    /\ exitCode = 0
    /\ pipeline # NoPipeline
    /\ idx < Len(pipelines)
    /\ next_page_token # NoToken

\* C5 as stated: every run on a feature branch that resolves a commit writes
\* the merge-base with the dev branch and makes no API request.
C5_Original ==
    (IsFeatureBranch(branchName) /\ pc = "exited" /\ exitCode = 0) =>
        /\ stdout = <<CommitLine(ExecOutput(MergeBaseCommit))>>
        /\ pageRequests = 0
        /\ inflight = {}

\* C5 amended: with no release tag set, a run on a feature branch makes no API
\* request and, when it resolves a commit, writes the merge-base with the dev
\* branch; with a release tag set it makes no API request either.
C5_FeatureBranchWithoutTag ==
    IsFeatureBranch(branchName) =>
        /\ pageRequests = 0
        /\ inflight = {}
        /\ failures = 0
        /\ (~circleTag /\ pc = "exited" /\ exitCode = 0) =>
              /\ route = "feature"
              /\ stdout = <<CommitLine(ExecOutput(MergeBaseCommit))>>

\* C5 witness: a feature-branch run without release tag wrote its commit.
C5_Witness ==
    /\ IsFeatureBranch(branchName)
    /\ ~circleTag
    /\ pc = "exited"
    /\ exitCode = 0
    /\ Len(stdout) = 1

\* C6 as stated: after a search without result, the flag decides between exit
\* code 1 without Commit: line and a warning followed by the Commit: line of
\* HEAD~1 with exit code 0.
C6_Original ==
    SearchFoundNothing =>
        IF errorOnNoSuccessfulWorkflow
        THEN /\ exitCode = 1
             /\ stdout = <<HardErrorText>>
        ELSE /\ exitCode = 0
             /\ stdout = <<WarningText, CommitLine(ExecOutput(HeadParentCommit))>>

\* C6 amended: as C6, except that without the flag the Commit: line of HEAD~1
\* and exit code 0 follow the warning only when HEAD~1 resolves; when it does
\* not, the run ends after the warning with a non-zero exit code and without
\* Commit: line.
C6_FallbackWhenParentResolves ==
    SearchFoundNothing =>
        IF errorOnNoSuccessfulWorkflow
        THEN /\ exitCode = 1
             /\ stdout = <<HardErrorText>>
        ELSE \/ /\ exitCode = 0
                /\ stdout = <<WarningText, CommitLine(ExecOutput(HeadParentCommit))>>
             \/ /\ exitCode # 0
                /\ stdout = <<WarningText>>
                /\ stderr # <<>>

\* C6 witness: the fallback wrote the parent of HEAD.
C6_Witness ==
    /\ SearchFoundNothing
    /\ ~errorOnNoSuccessfulWorkflow
    /\ exitCode = 0
    /\ Len(stdout) = 2

\* C7: a run that has ended either wrote exactly one full Commit: line, as the
\* last thing on standard output, and exited with code 0, or wrote no Commit:
\* line and exited with a non-zero code; no Commit: line ever lacks its hash.
C7_CommitLineOrFailure ==
    /\ \A i \in CommitLineIndexes : FullCommitLine(stdout[i])
    /\ pc = "exited" =>
          \/ /\ exitCode = 0
             /\ CommitLineIndexes = {Len(stdout)}
          \/ /\ exitCode > 0
             /\ CommitLineIndexes = {}
    /\ pc # "exited" => (exitCode = NotExited /\ CommitLineIndexes = {})

\* C7 witness: the fallback's git query failed after the warning.
C7_Witness ==
    /\ SearchFoundNothing
    /\ ~errorOnNoSuccessfulWorkflow
    /\ exitCode = 1
    /\ stdout = <<WarningText>>

\* C8: a failed fetch is the only one of its run: the process has exited with
\* code 1, nothing is outstanding, the error is on standard error and there
\* is no Commit: line.
C8_FetchFailureAborts ==
    /\ failures <= 1
    /\ failures = 1 =>
          /\ pc = "exited"
          /\ exitCode = 1
          /\ inflight = {}
          /\ Len(stderr) = 1
          /\ CommitLineIndexes = {}
          /\ stdout = <<>>

\* C8 witness: the workflow request of a pipeline of the second page failed.
C8_Witness ==
    /\ failures = 1
    /\ pageRequests = 2
    /\ unexamined > 0
    /\ stderr = <<FetchErrorMessage>>

\* C9: the route of a run is the tag route when a release tag is set, else
\* the feature-branch route when the branch is neither main nor dev, else the
\* protected-branch route; API requests are made on the protected-branch
\* route only.
C9_RoutePriority ==
    /\ route # "none" =>
          /\ buildUrlOk
          /\ route = (IF circleTag THEN "tag"
                      ELSE IF branchName \notin {mainBranchName, devBranchName}
                           THEN "feature"
                           ELSE "protected")
    /\ (buildUrlOk /\ pc # "start") => route # "none"
    /\ (pageRequests > 0 \/ inflight # {}) =>
          /\ route = "protected"
          /\ ~circleTag
          /\ branchName \in {mainBranchName, devBranchName}

\* C9 witness: the tag route ran to its end on a feature branch.
C9_Witness ==
    /\ route = "tag"
    /\ IsFeatureBranch(branchName)
    /\ pc = "exited"
    /\ exitCode = 0

\* C10: at most one request is outstanding, and only while the run waits for
\* it; a page after the first is requested only when every pipeline delivered
\* so far was examined and none was selected.
C10_OneRequestAtATime ==
    /\ Cardinality(inflight) <= 1
    /\ inflight # {} <=> pc \in {"awaitPage", "awaitWorkflow"}
    /\ (pc = "awaitPage" /\ pageRequests > 1) =>
          /\ unexamined = 0
          /\ pipeline = NoPipeline
          /\ firstEligible = 0

\* C10 witness: the second page is awaited after a full first page.
C10_Witness ==
    /\ pc = "awaitPage"
    /\ pageRequests = 2
    /\ Len(pipelines) = MaxItems
    /\ Cardinality(inflight) = 1

====
